---- MODULE Spec2Model ----
(***************************************************************************)
(* Model of the LLMeaning batch toolkit: the two single-item generator     *)
(* scripts (generate_thinker_meaning.py, generate_thinker_questionnaires.py)*)
(* and the two batch orchestrators (batch_generate_thinkers.py,             *)
(* batch_generate_questionnaires.py).  Strings are sequences of one-        *)
(* character strings so that lower(), replace(), title() and the directory  *)
(* scan are computed character by character as Python computes them.        *)
(***************************************************************************)
EXTENDS Integers, Sequences, FiniteSets, TLC

(***************************************************************************)
(* Characters.  LowerChars[k] and UpperChars[k] are the two cases of the    *)
(* same letter; every other character is uncased.                           *)
(***************************************************************************)
LowerChars == <<"a", "b", "c", "d", "e", "f", "g", "h", "i", "j", "k", "l", "m", "n", "o", "p", "q", "r", "s", "t", "u", "v", "w", "x", "y", "z", "ø">>

UpperChars == <<"A", "B", "C", "D", "E", "F", "G", "H", "I", "J", "K", "L", "M", "N", "O", "P", "Q", "R", "S", "T", "U", "V", "W", "X", "Y", "Z", "Ø">>

IndexIn(c, s) == CHOOSE k \in 1..Len(s) : s[k] = c

LowerSet == {LowerChars[k] : k \in 1..Len(LowerChars)}

UpperSet == {UpperChars[k] : k \in 1..Len(UpperChars)}

ToLower == [c \in UpperSet |-> LowerChars[IndexIn(c, UpperChars)]]

ToUpper == [c \in LowerSet |-> UpperChars[IndexIn(c, LowerChars)]]

IsLower(c) == c \in LowerSet

IsUpper(c) == c \in UpperSet

IsCased(c) == IsLower(c) \/ IsUpper(c)

\* str.lower() on one character
LowerChar(c) == IF IsUpper(c) THEN ToLower[c] ELSE c

\* str.upper() on one character
UpperChar(c) == IF IsLower(c) THEN ToUpper[c] ELSE c

\* Unicode code point of a character (the order sorted() compares by)
Ord(c) ==
    IF IsLower(c) THEN (IF c = "ø" THEN 248 ELSE 96 + IndexIn(c, LowerChars))
    ELSE IF IsUpper(c) THEN (IF c = "Ø" THEN 216 ELSE 64 + IndexIn(c, UpperChars))
    ELSE IF c = " " THEN 32
    ELSE IF c = "-" THEN 45
    ELSE IF c = "." THEN 46
    ELSE 95

\* str.lower()
StrLower(s) == [k \in 1..Len(s) |-> LowerChar(s[k])]

\* str.replace(a, b) for single characters a, b
ReplaceChar(s, a, b) == [k \in 1..Len(s) |-> IF s[k] = a THEN b ELSE s[k]]

\* str.replace(pat, "") : every non-overlapping occurrence, left to right
RECURSIVE RemoveAll(_, _)
RemoveAll(s, pat) ==
    IF Len(s) < Len(pat) THEN s
    ELSE IF SubSeq(s, 1, Len(pat)) = pat
         THEN RemoveAll(SubSeq(s, Len(pat) + 1, Len(s)), pat)
         ELSE <<s[1]>> \o RemoveAll(Tail(s), pat)

\* str.capitalize() in the place of str.title(): only the first character
\* is upper-cased
Capitalize(s) ==
    [k \in 1..Len(s) |-> IF k = 1 THEN UpperChar(s[k]) ELSE LowerChar(s[k])]

\* str.title(): a cased character is upper-cased when the character before
\* it is uncased (or there is none) and lower-cased otherwise
RECURSIVE TitleFrom(_, _)
TitleFrom(s, prevCased) ==
    IF s = <<>> THEN <<>>
    ELSE LET c == s[1]
         IN  IF IsCased(c)
             THEN <<(IF prevCased THEN LowerChar(c) ELSE UpperChar(c))>>
                      \o TitleFrom(Tail(s), TRUE)
             ELSE <<c>> \o TitleFrom(Tail(s), FALSE)

Title(s) == TitleFrom(s, FALSE)

\* sorted() compares strings by code point, a proper prefix first
RECURSIVE StrLeq(_, _)
StrLeq(a, b) ==
    IF a = <<>> THEN TRUE
    ELSE IF b = <<>> THEN FALSE
    ELSE IF Ord(a[1]) < Ord(b[1]) THEN TRUE
    ELSE IF Ord(a[1]) > Ord(b[1]) THEN FALSE
    ELSE StrLeq(Tail(a), Tail(b))

EndsWith(s, suf) ==
    /\ Len(s) >= Len(suf)
    /\ SubSeq(s, Len(s) - Len(suf) + 1, Len(s)) = suf

\* Path.stem: the file name without its last suffix
Stem(f) ==
    LET dots == {k \in 2..Len(f) - 1 : f[k] = "."}
    IN  IF dots = {} THEN f
        ELSE SubSeq(f, 1, (CHOOSE k \in dots : \A j \in dots : j <= k) - 1)

(***************************************************************************)
(* Names and file names.                                                    *)
(***************************************************************************)
ViktorFrankl == <<"V", "i", "k", "t", "o", "r", " ", "F", "r", "a", "n", "k", "l">>

AlbertCamus == <<"A", "l", "b", "e", "r", "t", " ", "C", "a", "m", "u", "s">>

JeanPaulSartre == <<"J", "e", "a", "n", "-", "P", "a", "u", "l", " ", "S", "a", "r", "t", "r", "e">>

FriedrichNietzsche == <<"F", "r", "i", "e", "d", "r", "i", "c", "h", " ", "N", "i", "e", "t", "z", "s", "c", "h", "e">>

SorenKierkegaard == <<"S", "ø", "r", "e", "n", " ", "K", "i", "e", "r", "k", "e", "g", "a", "a", "r", "d">>

\* the left-hand side of the first special case of the directory scan
JeanLowerPaulSartre == <<"J", "e", "a", "n", "-", "p", "a", "u", "l", " ", "S", "a", "r", "t", "r", "e">>

OnMeaning == <<"O", "n", " ", "M", "e", "a", "n", "i", "n", "g">>

MeaningSuffix == <<"_", "m", "e", "a", "n", "i", "n", "g">>

MeaningTxt == <<"_", "m", "e", "a", "n", "i", "n", "g", ".", "t", "x", "t">>

QuestionnaireTxt == <<"_", "q", "u", "e", "s", "t", "i", "o", "n", "n", "a", "i", "r", "e", ".", "t", "x", "t">>

\* thinker_name.replace(' ', '_').lower()
Slug(name) == StrLower(ReplaceChar(name, " ", "_"))

EssayFileName(name) == Slug(name) \o MeaningTxt

QuestionnaireFileName(name) == Slug(name) \o QuestionnaireTxt

\* the fixed work list of the essay batch
Thinkers == <<ViktorFrankl, AlbertCamus, JeanPaulSartre, FriedrichNietzsche, SorenKierkegaard>>

\* the names whose casing the directory scan special-cases
OverrideNames == {JeanPaulSartre, SorenKierkegaard}

\* the names a user passes to the single-item scripts on the command line
CliNames == {SorenKierkegaard, OnMeaning}

(***************************************************************************)
(* Directory scan of the questionnaire batch.                               *)
(***************************************************************************)
\* the display name derived from one essay file name
DisplayName(f) ==
    LET t == Title(ReplaceChar(RemoveAll(Stem(f), MeaningSuffix), "_", " "))
    IN  IF t = JeanLowerPaulSartre THEN JeanPaulSartre
        ELSE IF t = SorenKierkegaard THEN SorenKierkegaard
        ELSE t

\* insertion of one name into a list sorted by StrLeq
RECURSIVE InsertSorted(_, _)
InsertSorted(x, s) ==
    IF s = <<>> THEN <<x>>
    ELSE IF StrLeq(x, s[1]) THEN <<x>> \o s
    ELSE <<s[1]>> \o InsertSorted(x, Tail(s))

RECURSIVE SortedNames(_)
SortedNames(files) ==
    IF files = {} THEN <<>>
    ELSE LET f == CHOOSE g \in files : TRUE
         IN  InsertSorted(DisplayName(f), SortedNames(files \ {f}))

\* get_available_thinkers(): dir is the essay directory, a function from
\* the names of the files present to their contents
get_available_thinkers(dir) ==
    SortedNames({f \in DOMAIN dir : EndsWith(f, MeaningTxt)})

(***************************************************************************)
(* The single-item scripts.  A run is computed from the command line        *)
(* (name, key), the environment (env: OPENAI_API_KEY is set), the essay     *)
(* directory, and what the outside world does during the run: whether the   *)
(* openai package imports, what the chat-completion call does (api) and     *)
(* whether the output file can be opened for writing (writable).            *)
(***************************************************************************)
NoKey == "None"

Keys == {NoKey, "sk-key"}

\* what the chat-completion call does: it raises, or it returns a message
\* with some text or with blank content
ApiError == [raises |-> TRUE, content |-> <<>>]

ApiText == [raises |-> FALSE, content |-> <<" ", "e">>]

ApiBlank == [raises |-> FALSE, content |-> <<" ">>]

\* str.strip() for the blank character
RECURSIVE LStrip(_)
LStrip(s) == IF s # <<>> /\ s[1] = " " THEN LStrip(Tail(s)) ELSE s

RECURSIVE RStrip(_)
RStrip(s) ==
    IF s # <<>> /\ s[Len(s)] = " " THEN RStrip(SubSeq(s, 1, Len(s) - 1)) ELSE s

Strip(s) == RStrip(LStrip(s))

\* datetime.now() formatted; one value, the model does not tell runs apart
\* by their time
TimeStamp == "timestamp"

\* truthiness of a key: None and the empty string select the environment
setup_openai_client(key, env) ==
    IF key # NoKey THEN "client"
    ELSE IF ~env THEN "ValueError"
    ELSE "client"

\* generate_thinker_meaning_essay / generate_thinker_questionnaire: the
\* client is set up outside the try block, the call is made inside it.
\* The returned value is None (isNone) or the stripped content.
generate(key, env, api) ==
    IF setup_openai_client(key, env) = "ValueError"
    THEN [raised |-> "ValueError", isNone |-> TRUE, value |-> <<>>, called |-> FALSE]
    ELSE IF api.raises
    THEN [raised |-> "no", isNone |-> TRUE, value |-> <<>>, called |-> TRUE]
    ELSE [raised |-> "no", isNone |-> FALSE, value |-> Strip(api.content), called |-> TRUE]

\* "if essay:" is false for None and for the empty string
Truthy(g) == ~g.isNone /\ g.value # <<>>

\* a header that carries the slug in the place of the supplied name
EssayFileSlugHeader(name, text) ==
    [generated_on |-> TimeStamp, thinker |-> Slug(name), body |-> text]

\* the file save_thinker_essay writes: the header lines, then the text
EssayFile(name, text) ==
    [generated_on |-> TimeStamp, thinker |-> name, body |-> text]

\* the file save_questionnaire writes
QuestionnaireFile(name, text) ==
    [generated_on |-> TimeStamp, thinker |-> name,
     questionnaire_type |-> "Meaning in Life", body |-> text]

\* generate_thinker_meaning.py main(): nothing is caught
EssayMain(name, key, env, api, writable) ==
    LET g == generate(key, env, api)
    IN  IF g.raised # "no"
        THEN [exit |-> 1, called |-> FALSE, wrote |-> FALSE,
              report |-> "uncaught ValueError", api_error |-> FALSE, text |-> <<>>]
        ELSE IF Truthy(g)
        THEN IF writable
             THEN [exit |-> 0, called |-> TRUE, wrote |-> TRUE,
                   report |-> "generated", api_error |-> FALSE, text |-> g.value]
             ELSE [exit |-> 1, called |-> TRUE, wrote |-> FALSE,
                   report |-> "uncaught OSError", api_error |-> FALSE, text |-> <<>>]
        ELSE [exit |-> 0, called |-> TRUE, wrote |-> FALSE,
              report |-> "failed to generate", api_error |-> api.raises,
              text |-> <<>>]

\* a read without the existence check: a missing essay reads as empty text
read_thinker_text_unchecked(name, dir) ==
    IF EssayFileName(name) \notin DOMAIN dir
    THEN [raised |-> "no", value |-> <<>>]
    ELSE [raised |-> "no", value |-> dir[EssayFileName(name)].body]

\* read_thinker_text: raises when the essay file is not in the directory
read_thinker_text(name, dir) ==
    IF EssayFileName(name) \notin DOMAIN dir
    THEN [raised |-> "FileNotFoundError", value |-> <<>>]
    ELSE [raised |-> "no", value |-> dir[EssayFileName(name)].body]

\* generate_thinker_questionnaires.py main(): everything is caught
QuestionnaireMain(name, key, env, dir, api, writable) ==
    IF read_thinker_text(name, dir).raised # "no"
    THEN [exit |-> 0, called |-> FALSE, wrote |-> FALSE,
          report |-> "error: file not found", api_error |-> FALSE, text |-> <<>>]
    ELSE LET g == generate(key, env, api)
         IN  IF g.raised # "no"
             THEN [exit |-> 0, called |-> FALSE, wrote |-> FALSE,
                   report |-> "error: ValueError", api_error |-> FALSE, text |-> <<>>]
             ELSE IF Truthy(g)
             THEN IF writable
                  THEN [exit |-> 0, called |-> TRUE, wrote |-> TRUE,
                        report |-> "generated", api_error |-> FALSE, text |-> g.value]
                  ELSE [exit |-> 0, called |-> TRUE, wrote |-> FALSE,
                        report |-> "error: OSError", api_error |-> FALSE, text |-> <<>>]
             ELSE [exit |-> 0, called |-> TRUE, wrote |-> FALSE,
                   report |-> "failed to generate", api_error |-> api.raises,
                   text |-> <<>>]

\* "import openai" at the top of either script: an ImportError ends the
\* process before main() with exit status 1
ImportFailed ==
    [exit |-> 1, called |-> FALSE, wrote |-> FALSE,
     report |-> "uncaught ImportError", api_error |-> FALSE, text |-> <<>>]

\* one process of either script
Process(script, name, key, env, dir, imports, api, writable) ==
    IF ~imports THEN ImportFailed
    ELSE IF script = "essay" THEN EssayMain(name, key, env, api, writable)
    ELSE QuestionnaireMain(name, key, env, dir, api, writable)

(***************************************************************************)
(* What the outside world does to one item.  At most one thing goes wrong   *)
(* per item, since each of these ends the item: subprocess.run raises, the  *)
(* openai import fails, the chat-completion call raises, it returns blank   *)
(* content, or the output file cannot be opened.                            *)
(***************************************************************************)
Faults == {"none", "launch", "import", "api_error", "blank", "unwritable"}

World(fault) ==
    [launch   |-> fault # "launch",
     imports  |-> fault # "import",
     api      |-> IF fault = "api_error" THEN ApiError
                  ELSE IF fault = "blank" THEN ApiBlank
                  ELSE ApiText,
     writable |-> fault # "unwritable"]

\* bounds of one behaviour: faults of the outside world, command-line runs
\* of the single-item scripts
MaxFaults == 2

MaxCli == 1

\* a directory after a file is written (created or overwritten)
WriteFile(dir, f, content) ==
    [g \in DOMAIN dir \cup {f} |-> IF g = f THEN content ELSE dir[g]]

(***************************************************************************)
(* The per-item runners of the two orchestrators.  launched is FALSE when   *)
(* subprocess.run raised instead of returning a result.  The value is       *)
(* "True" or "False"; "raise" would be an exception leaving the runner.     *)
(***************************************************************************)
\* a runner without the except clause: the exception leaves it
run_thinker_generation_uncaught(launched, returncode) ==
    IF ~launched THEN "raise"
    ELSE IF returncode = 0 THEN "True"
    ELSE "False"

run_thinker_generation(launched, returncode) ==
    IF ~launched THEN "False"
    ELSE IF returncode = 0 THEN "True"
    ELSE "False"

\* a runner that does not look at the exit status
run_questionnaire_generation_any_exit(launched, returncode) ==
    IF ~launched THEN "False"
    ELSE "True"

run_questionnaire_generation(launched, returncode) ==
    IF ~launched THEN "False"
    ELSE IF returncode = 0 THEN "True"
    ELSE "False"

Runner(kind, launched, returncode) ==
    IF kind = "essay" THEN run_thinker_generation(launched, returncode)
    ELSE run_questionnaire_generation(launched, returncode)

\* a tally whose second branch lost its else
TallyNoElse(res, s, f) == IF res = "True" THEN <<s + 1, f + 1>> ELSE <<s, f + 1>>

\* the tally of the loop body: <<successful, failed>> after one item
Tally(res, s, f) == IF res = "True" THEN <<s + 1, f>> ELSE <<s, f + 1>>

\* a pause after every item, the last one included
PauseAfterEvery(k, n) == k <= n

\* "if i < len(thinkers)": a pause follows item k of n
PauseAfter(k, n) == k < n

(***************************************************************************)
(* State.                                                                   *)
(***************************************************************************)
VARIABLES
    env,             \* OPENAI_API_KEY is set in the environment
    essays,          \* ../thinkers_texts: file name -> file
    questionnaires,  \* ../generated_questionnaires: file name -> file
    last_run,        \* the most recent process of a single-item script
    b_pc,            \* where the orchestrator is: idle, loop, sleep, summary, done, crashed
    b_kind,          \* which orchestrator runs: essay, questionnaire, none
    thinkers,        \* its work list
    api_key,         \* the key typed at its prompt, NoKey for an empty line
    i,               \* number of items processed
    successful,
    failed,
    events,          \* what the loop has done so far: <<"run", k>>, <<"pause", k>>
    b_last,          \* launch, exit status and classification of the last item
    summary,         \* the tally the summary printed
    faults,          \* faults of the outside world so far
    clis             \* command-line runs so far

vars == <<env, essays, questionnaires, last_run, b_pc, b_kind, thinkers,
          api_key, i, successful, failed, events, b_last, summary,
          faults, clis>>

batch_vars == <<b_pc, b_kind, thinkers, api_key, i, successful, failed,
                events, b_last, summary>>

NoRun ==
    [script |-> "none", name |-> <<>>, key |-> NoKey, had_essay |-> FALSE,
     exit |-> 0, called |-> FALSE, wrote |-> FALSE, report |-> "none",
     api_error |-> FALSE, text |-> <<>>]

NoItem == [launched |-> FALSE, returncode |-> 0, result |-> "none", name |-> <<>>]

NoSummary == [printed |-> FALSE, successful |-> 0, failed |-> 0, total |-> 0]

EmptyDir == [f \in {} |-> <<>>]

Init ==
    /\ env \in BOOLEAN
    /\ essays = EmptyDir
    /\ questionnaires = EmptyDir
    /\ last_run = NoRun
    /\ b_pc = "idle"
    /\ b_kind = "none"
    /\ thinkers = <<>>
    /\ api_key = NoKey
    /\ i = 0
    /\ successful = 0
    /\ failed = 0
    /\ events = <<>>
    /\ b_last = NoItem
    /\ summary = NoSummary
    /\ faults = 0
    /\ clis = 0

\* a fault is drawn only while the behaviour's budget lasts
Draw(fault) ==
    /\ fault # "none" => faults < MaxFaults
    /\ faults' = IF fault = "none" THEN faults ELSE faults + 1

(***************************************************************************)
(* One process of a single-item script, from start to exit.                 *)
(***************************************************************************)
RunScript(script, name, key, imports, api, writable) ==
    LET r == Process(script, name, key, env, essays, imports, api, writable)
    IN  /\ last_run' = [script |-> script, name |-> name, key |-> key,
                        had_essay |-> EssayFileName(name) \in DOMAIN essays,
                        exit |-> r.exit, called |-> r.called, wrote |-> r.wrote,
                        report |-> r.report, api_error |-> r.api_error,
                        text |-> r.text]
        /\ essays' = IF r.wrote /\ script = "essay"
                     THEN WriteFile(essays, EssayFileName(name), EssayFile(name, r.text))
                     ELSE essays
        /\ questionnaires' =
                     IF r.wrote /\ script = "questionnaire"
                     THEN WriteFile(questionnaires, QuestionnaireFileName(name),
                                    QuestionnaireFile(name, r.text))
                     ELSE questionnaires

\* a user runs generate_thinker_meaning.py from the command line; the
\* faults of the outside world are drawn on the runs the orchestrators start
CliEssay(name, key) ==
    /\ b_pc = "idle"
    /\ clis < MaxCli
    /\ RunScript("essay", name, key, World("none").imports, World("none").api,
                 World("none").writable)
    /\ clis' = clis + 1
    /\ UNCHANGED <<env, batch_vars, faults>>

\* a user runs generate_thinker_questionnaires.py from the command line
CliQuestionnaire(name, key) ==
    /\ b_pc = "idle"
    /\ clis < MaxCli
    /\ RunScript("questionnaire", name, key, World("none").imports,
                 World("none").api, World("none").writable)
    /\ clis' = clis + 1
    /\ UNCHANGED <<env, batch_vars, faults>>

(***************************************************************************)
(* The orchestrators.                                                       *)
(***************************************************************************)
\* batch_generate_thinkers.py main() up to the loop
StartEssayBatch(key) ==
    /\ b_pc = "idle"
    /\ b_kind' = "essay"
    /\ thinkers' = Thinkers
    /\ api_key' = key
    /\ i' = 0
    /\ successful' = 0
    /\ failed' = 0
    /\ events' = <<>>
    /\ b_pc' = "loop"
    /\ UNCHANGED <<env, essays, questionnaires, last_run, b_last, summary,
                   faults, clis>>

\* batch_generate_questionnaires.py main() up to the loop; with no essay
\* file it returns before the prompt and the loop
StartQuestionnaireBatch(key) ==
    /\ b_pc = "idle"
    /\ b_kind' = "questionnaire"
    /\ thinkers' = get_available_thinkers(essays)
    /\ api_key' = IF thinkers' = <<>> THEN NoKey ELSE key
    /\ i' = 0
    /\ successful' = 0
    /\ failed' = 0
    /\ events' = <<>>
    /\ b_pc' = IF thinkers' = <<>> THEN "done" ELSE "loop"
    /\ UNCHANGED <<env, essays, questionnaires, last_run, b_last, summary,
                   faults, clis>>

\* "for i, thinker in enumerate(thinkers, 1)": there is a next item
HasNextItem == i < Len(thinkers)

\* where the for loop goes after the body of item k of n: to the next item,
\* or past the loop to the summary
AfterBody(k, n) == IF k < n THEN "loop" ELSE "summary"

\* one iteration of the for loop up to the pause: the runner starts the
\* subprocess (or subprocess.run raises), waits for it and classifies it,
\* and the loop counts the answer
BatchItem(fault) ==
    /\ b_pc = "loop"
    /\ HasNextItem
    /\ Draw(fault)
    /\ LET name == thinkers[i + 1]
           w    == World(fault)
           r    == Process(b_kind, name, api_key, env, essays, w.imports, w.api,
                           w.writable)
           code == IF w.launch THEN r.exit ELSE 0
           res  == Runner(b_kind, w.launch, code)
       IN  /\ IF w.launch
              THEN RunScript(b_kind, name, api_key, w.imports, w.api, w.writable)
              ELSE UNCHANGED <<essays, questionnaires, last_run>>
           /\ b_last' = [launched |-> w.launch, returncode |-> code,
                         result |-> res, name |-> name]
           /\ successful' = IF res = "raise" THEN successful
                            ELSE Tally(res, successful, failed)[1]
           /\ failed' = IF res = "raise" THEN failed
                        ELSE Tally(res, successful, failed)[2]
           /\ i' = i + 1
           /\ events' = Append(events, <<"run", i + 1>>)
           /\ b_pc' = IF res = "raise" THEN "crashed"
                      ELSE IF PauseAfter(i + 1, Len(thinkers)) THEN "sleep"
                      ELSE AfterBody(i + 1, Len(thinkers))
    /\ UNCHANGED <<env, b_kind, thinkers, api_key, summary, clis>>

\* time.sleep at the end of the loop body
Pause ==
    /\ b_pc = "sleep"
    /\ events' = Append(events, <<"pause", i>>)
    /\ b_pc' = AfterBody(i, Len(thinkers))
    /\ UNCHANGED <<env, essays, questionnaires, last_run, b_kind, thinkers,
                   api_key, i, successful, failed, b_last, summary,
                   faults, clis>>

\* the summary after the loop
Summary ==
    /\ b_pc = "summary"
    /\ summary' = [printed |-> TRUE, successful |-> successful,
                   failed |-> failed, total |-> Len(thinkers)]
    /\ b_pc' = "done"
    /\ UNCHANGED <<env, essays, questionnaires, last_run, b_kind, thinkers,
                   api_key, i, successful, failed, events, b_last,
                   faults, clis>>

\* the orchestrator process ends; what it captured of its last subprocess
\* goes with it
BatchExit ==
    /\ b_pc \in {"done", "crashed"}
    /\ b_pc' = "idle"
    /\ b_kind' = "none"
    /\ thinkers' = <<>>
    /\ api_key' = NoKey
    /\ i' = 0
    /\ successful' = 0
    /\ failed' = 0
    /\ events' = <<>>
    /\ b_last' = NoItem
    /\ summary' = NoSummary
    /\ last_run' = NoRun
    /\ UNCHANGED <<env, essays, questionnaires, faults, clis>>

Next ==
    \/ \E name \in CliNames, key \in Keys : CliEssay(name, key)
    \/ \E name \in CliNames, key \in Keys : CliQuestionnaire(name, key)
    \/ \E key \in Keys : StartEssayBatch(key)
    \/ \E key \in Keys : StartQuestionnaireBatch(key)
    \/ \E fault \in Faults : BatchItem(fault)
    \/ Pause
    \/ Summary
    \/ BatchExit

Spec == Init /\ [][Next]_vars

(***************************************************************************)
(* Properties.                                                              *)
(***************************************************************************)
Range(s) == {s[k] : k \in 1..Len(s)}

InBatch == b_pc \in {"loop", "sleep", "summary", "done", "crashed"}

PauseCount == Cardinality({j \in 1..Len(events) : events[j][1] = "pause"})

\* C1: in either orchestrator, after the k-th item has been processed
\* successful + failed = k, and the tally the summary prints over a work
\* list of length N satisfies successful + failed = N.
C1_TallyAddsUp ==
    /\ successful + failed = i
    /\ summary.printed =>
         /\ summary.total = Len(thinkers)
         /\ summary.successful + summary.failed = summary.total

C1_Witness ==
    /\ summary.printed
    /\ summary.successful >= 1
    /\ summary.failed >= 1

\* C2: a single-item script ends with exit status 0 exactly when the text
\* was generated and the output file written, and with a non-zero status on
\* every failure (missing credential, collaborator error, empty result,
\* missing essay file, write failure).
C2_ExitStatus ==
    last_run.script # "none" =>
        (last_run.exit = 0 <=> last_run.report = "generated" /\ last_run.wrote)

\* C3: in a batch, an item whose chat-completion call raised inside the
\* single-item script is classified as failed by the orchestrator.
C3_ApiErrorMarkedFailed ==
    (InBatch /\ b_last.launched /\ last_run.api_error) => b_last.result = "False"

\* C4: a questionnaire run that finds no essay file for its thinker fails:
\* it does not generate, never calls the collaborator, and no questionnaire
\* file is created or changed by it.
C4_State ==
    (last_run.script = "questionnaire" /\ ~last_run.had_essay) =>
        /\ last_run.report # "generated"
        /\ ~last_run.called
        /\ ~last_run.wrote

C4_Step ==
    questionnaires' # questionnaires =>
        /\ last_run'.script = "questionnaire"
        /\ last_run'.had_essay

C4_MissingEssay == []C4_State /\ [][C4_Step]_vars

C4_Witness ==
    /\ last_run.script = "questionnaire"
    /\ ~last_run.had_essay
    /\ last_run.report = "error: file not found"
    /\ EssayFileName(last_run.name) \notin DOMAIN essays

\* C5: for both names of the override table, the essay file name made from
\* the name is scanned back to exactly that name, and the scanned work list
\* holds the name whenever its essay file is in the directory.
C5_RoundTrip ==
    \A T \in OverrideNames :
        EssayFileName(T) \in DOMAIN essays =>
            /\ DisplayName(EssayFileName(T)) = T
            /\ (b_kind = "questionnaire" /\ b_pc # "idle") => T \in Range(thinkers)

C5_Witness ==
    /\ b_kind = "questionnaire"
    /\ b_pc = "loop"
    /\ \A T \in OverrideNames :
          EssayFileName(T) \in DOMAIN essays /\ T \in Range(thinkers)

\* C6: a successful run for name T leaves the file <slug(T)>_meaning.txt
\* (or _questionnaire.txt) whose header names T as supplied and whose body
\* is the generated text, and a step creates or changes no other file of
\* either directory.
C6_State ==
    last_run.wrote =>
        /\ last_run.text # <<>>
        /\ last_run.script = "essay" =>
             /\ EssayFileName(last_run.name) \in DOMAIN essays
             /\ essays[EssayFileName(last_run.name)].thinker = last_run.name
             /\ essays[EssayFileName(last_run.name)].body = last_run.text
        /\ last_run.script = "questionnaire" =>
             /\ QuestionnaireFileName(last_run.name) \in DOMAIN questionnaires
             /\ questionnaires[QuestionnaireFileName(last_run.name)].thinker
                    = last_run.name
             /\ questionnaires[QuestionnaireFileName(last_run.name)].body
                    = last_run.text

Changed(dir, dir2) ==
    {f \in DOMAIN dir \cup DOMAIN dir2 :
        f \notin DOMAIN dir \/ f \notin DOMAIN dir2 \/ dir[f] # dir2[f]}

C6_Step ==
    /\ Changed(essays, essays') # {} =>
         /\ last_run'.script = "essay"
         /\ last_run'.wrote
         /\ Changed(essays, essays') = {EssayFileName(last_run'.name)}
         /\ questionnaires' = questionnaires
    /\ Changed(questionnaires, questionnaires') # {} =>
         /\ last_run'.script = "questionnaire"
         /\ last_run'.wrote
         /\ Changed(questionnaires, questionnaires')
                = {QuestionnaireFileName(last_run'.name)}
         /\ essays' = essays

C6_OneOutputFile == []C6_State /\ [][C6_Step]_vars

C6_Witness ==
    /\ last_run.wrote
    /\ last_run.script = "essay"
    /\ last_run.name = OnMeaning
    /\ Cardinality(DOMAIN essays) >= 2
    /\ essays[EssayFileName(OnMeaning)].thinker = OnMeaning

\* steps left to the end of the summary
StepsLeft ==
    2 * (Len(thinkers) - i)
      + (IF b_pc = "sleep" THEN 2 ELSE IF b_pc \in {"loop", "summary"} THEN 1 ELSE 0)

\* C7: the loop hands the items to the runner one by one in work-list
\* order, each once, whatever the earlier outcomes; no exception ends the
\* loop; and a batch that has entered the loop reaches the summary: the
\* loop always has its next item to run, and every step of the orchestrator
\* brings the summary nearer.
C7_Safe ==
    /\ b_pc # "crashed"
    /\ i <= Len(thinkers)
    /\ Cardinality({j \in 1..Len(events) : events[j][1] = "run"}) = i
    /\ \A k \in 1..i : \E j \in 1..Len(events) :
          /\ events[j] = <<"run", k>>
          /\ \A l \in 1..Len(events) : (events[l][1] = "run" /\ l < j) => events[l][2] < k
    /\ (InBatch /\ i >= 1) => b_last.name = thinkers[i]
    /\ summary.printed => i = Len(thinkers)
    /\ b_pc \in {"summary", "done"} => i = Len(thinkers)
    /\ b_pc = "loop" => HasNextItem
    /\ (b_pc = "done" /\ thinkers # <<>>) => summary.printed

C7_Step ==
    b_pc \in {"loop", "sleep", "summary"} =>
        /\ b_pc' \in {"loop", "sleep", "summary", "done"}
        /\ thinkers' = thinkers
        /\ StepsLeft' < StepsLeft

C7_EveryItemOnce == []C7_Safe /\ [][C7_Step]_vars

C7_Witness ==
    /\ summary.printed
    /\ summary.total >= 2
    /\ summary.failed >= 2
    /\ i = summary.total

\* C8: the orchestrator pauses once after each of the items 1..N-1, after
\* that item has been run and before the next one is, and not after item N.
C8_Pauses ==
    /\ \A j \in 1..Len(events) :
          events[j] = IF j % 2 = 1 THEN <<"run", (j + 1) \div 2>>
                      ELSE <<"pause", j \div 2>>
    /\ (b_pc \in {"summary", "done"} /\ Len(thinkers) >= 1) =>
          /\ PauseCount = Len(thinkers) - 1
          /\ events[Len(events)] = <<"run", Len(thinkers)>>

C8_Witness ==
    /\ summary.printed
    /\ summary.total >= 2
    /\ summary.failed >= 1
    /\ PauseCount = summary.total - 1

\* C9: with no key on the command line and none in the environment, a
\* single-item run fails inside the script (no uncaught exception ends the
\* process), the collaborator is not called and no output file is written.
C9_MissingCredential ==
    (/\ last_run.script # "none"
     /\ last_run.key = NoKey
     /\ ~env
     /\ last_run.report # "uncaught ImportError") =>
        /\ ~last_run.called
        /\ ~last_run.wrote
        /\ last_run.report \in {"error: ValueError", "error: file not found",
                                "failed to generate"}

\* C10: the runner answers True exactly when the subprocess was launched
\* and its exit status, the one the script ended with, is zero; it answers
\* False otherwise, and no exception leaves it.
C10_Runner ==
    /\ b_pc # "crashed"
    /\ b_last.result # "none" =>
         /\ b_last.result \in {"True", "False"}
         /\ b_last.launched => b_last.returncode = last_run.exit
         /\ b_last.result = "True" <=> (b_last.launched /\ b_last.returncode = 0)

C10_Witness ==
    /\ b_kind = "questionnaire"
    /\ b_last.launched
    /\ b_last.returncode # 0
    /\ b_last.result = "False"

\* C11: for every name T whose essay file the essay script wrote, the
\* directory scan derives from that file a display name D with
\* slug(D) = slug(T), so that the questionnaire script run with D looks for
\* that same essay file.
C11_PipelineConsistent ==
    \A f \in DOMAIN essays :
        /\ Slug(DisplayName(f)) = Slug(essays[f].thinker)
        /\ EssayFileName(DisplayName(f)) = f

====
